---- MODULE Spec2Model ----
(***************************************************************************)
(* gtfspy.routing.forwardjourney.ForwardJourney: a journey is an ordered   *)
(* list of legs (Connection objects) with running departure_time,          *)
(* arrival_time and n_boardings, a set of metric accessors and a pairwise  *)
(* dominance test.  Python 3 semantics: None compared or subtracted raises *)
(* TypeError, indexing an empty list raises IndexError, assert statements  *)
(* are executed.                                                           *)
(***************************************************************************)
EXTENDS Integers, Sequences, FiniteSets, TLC

VARIABLES journeys, search, op, recv, args, out

vars == <<journeys, search, op, recv, args, out>>

(* ---------------------------------------------------------------- bounds *)
MaxLegs == 3
MaxTime == 1
MaxTrip == 1
MaxStop == 2
DomMaxLegs == 1

(* ------------------------------------------------------- Python values    *)
\* None is the empty tuple, any other optional value x is <<x>>.
None == <<>>
Some(x) == <<x>>

\* The outcome of a call: a returned value or a raised exception.
Ok(v) == [ok |-> TRUE, val |-> v]
Raise(e) == [ok |-> FALSE, val |-> e]

\* Python truth value of an optional integer: None and 0 are false.
truthy(x) == x /= None /\ x[1] /= 0

isinstance(v, c) == v.cls = c

RECURSIVE sum(_)
sum(s) == IF s = <<>> THEN 0 ELSE Head(s) + sum(Tail(s))

max(a, b) == IF a >= b THEN a ELSE b

(* ------------------------------------------------------- Connection       *)
Connection(ds, as, dt, at, trip, walk, wait) ==
    [cls |-> "Connection", departure_stop |-> ds, arrival_stop |-> as,
     departure_time |-> dt, arrival_time |-> at, trip_id |-> trip,
     is_walk |-> walk, waiting_time |-> wait]

duration(leg) == leg.arrival_time - leg.departure_time

\* Values that are no Connection: a PlotConnection of the animator (it has
\* departure_time and arrival_time but no trip_id) and None.
PlotConnection == [cls |-> "PlotConnection", departure_time |-> 0, arrival_time |-> 1]
NoneValue == [cls |-> "NoneType"]
NotConnections == {PlotConnection, NoneValue}

(* ------------------------------------------------------- the legs fed in  *)
TripIds == {None} \cup {Some(t) : t \in 0..MaxTrip}

\* Legs that vary in trip and stops: a line of stops 1, 2, ..., each leg
\* going one stop further.
TripFeed ==
    {Connection(s, s + 1, 0, 1, t, t = None, 0) : s \in 1..MaxStop, t \in TripIds}

\* departure_time <= arrival_time in every leg.
Times == {da \in (0..MaxTime) \X (0..MaxTime) : da[1] <= da[2]}

\* Legs that vary in their timestamps.
TimeFeed ==
    {Connection(1, 2, da[1], da[2], Some(1), FALSE, 0) : da \in Times}

\* Legs for journeys that are compared: they vary in time and in walk/ride.
DomFeed ==
    {Connection(1, 2, da[1], da[2], t, t = None, 0) : da \in Times, t \in {None, Some(1)}}

(* ------------------------------------------------------- ForwardJourney   *)
EmptyJourney ==
    [legs |-> <<>>, departure_time |-> None, arrival_time |-> None,
     trip_ids |-> {}, n_boardings |-> 0]

\* add_leg without its assert: a value with timestamps but no trip_id is used
\* until the read of trip_id raises; None raises at its first attribute read.
add_leg_noassert(self, leg) ==
    IF leg = NoneValue
    THEN [self |-> self, out |-> Raise("AttributeError")]
    ELSE IF ~isinstance(leg, "Connection")
    THEN [self |-> [self EXCEPT
                      !.departure_time =
                          IF self.legs = <<>> THEN Some(leg.departure_time) ELSE @,
                      !.arrival_time = Some(leg.arrival_time)],
          out |-> Raise("AttributeError")]
    ELSE LET first == self.legs = <<>>
             boards == truthy(leg.trip_id) /\
                       (first \/ leg.trip_id /= self.legs[Len(self.legs)].trip_id)
         IN [self |-> [self EXCEPT
                         !.departure_time = IF first THEN Some(leg.departure_time) ELSE @,
                         !.arrival_time = Some(leg.arrival_time),
                         !.n_boardings = IF boards THEN @ + 1 ELSE @,
                         !.legs = Append(@, leg)],
             out |-> Ok(None)]

\* add_leg that sets departure_time on every append, not only on the first.
add_leg_resetdep(self, leg) ==
    IF ~isinstance(leg, "Connection")
    THEN [self |-> self, out |-> Raise("AssertionError")]
    ELSE LET first == self.legs = <<>>
             boards == truthy(leg.trip_id) /\
                       (first \/ leg.trip_id /= self.legs[Len(self.legs)].trip_id)
         IN [self |-> [self EXCEPT
                         !.departure_time = Some(leg.departure_time),
                         !.arrival_time = Some(leg.arrival_time),
                         !.n_boardings = IF boards THEN @ + 1 ELSE @,
                         !.legs = Append(@, leg)],
             out |-> Ok(None)]

\* add_leg: the journey after the call and the call's outcome.
add_leg(self, leg) ==
    IF ~isinstance(leg, "Connection")
    THEN [self |-> self, out |-> Raise("AssertionError")]
    ELSE LET first == self.legs = <<>>
             boards == truthy(leg.trip_id) /\
                       (first \/ leg.trip_id /= self.legs[Len(self.legs)].trip_id)
         IN [self |-> [self EXCEPT
                         !.departure_time = IF first THEN Some(leg.departure_time) ELSE @,
                         !.arrival_time = Some(leg.arrival_time),
                         !.n_boardings = IF boards THEN @ + 1 ELSE @,
                         !.legs = Append(@, leg)],
             out |-> Ok(None)]

\* The constructor: an empty journey, then add_leg for every leg of the list.
RECURSIVE init_loop(_, _)
init_loop(self, legs) ==
    IF legs = <<>> THEN self
    ELSE init_loop(add_leg(self, Head(legs)).self, Tail(legs))

ForwardJourney(legs) == init_loop(EmptyJourney, legs)

get_travel_time(self) ==
    IF self.arrival_time = None \/ self.departure_time = None
    THEN Raise("TypeError")
    ELSE Ok(self.arrival_time[1] - self.departure_time[1])

get_transfers_nofloor(self) == Ok(self.n_boardings - 1)

get_transfers(self) == Ok(max(self.n_boardings - 1, 0))

get_all_stops(self) ==
    IF self.legs = <<>> THEN Raise("IndexError")
    ELSE Ok([i \in 1..Len(self.legs) |-> self.legs[i].departure_stop]
            \o <<self.legs[Len(self.legs)].arrival_stop>>)

\* The loop of get_transfer_stop_pairs over the legs not yet visited.
RECURSIVE transfer_loop(_, _, _, _)
transfer_loop(legs, previous_arrival_stop, current_trip_id, transfer_stop_pairs) ==
    IF legs = <<>> THEN transfer_stop_pairs
    ELSE LET leg == Head(legs)
             emit == leg.trip_id /= None /\ leg.trip_id /= current_trip_id
                     /\ previous_arrival_stop /= None
         IN transfer_loop(Tail(legs), Some(leg.arrival_stop), leg.trip_id,
                IF emit
                THEN Append(transfer_stop_pairs,
                            <<previous_arrival_stop[1], leg.departure_stop>>)
                ELSE transfer_stop_pairs)

\* As transfer_loop, but a walking leg keeps the trip that was current.
RECURSIVE transfer_loop_keep(_, _, _, _)
transfer_loop_keep(legs, previous_arrival_stop, current_trip_id, transfer_stop_pairs) ==
    IF legs = <<>> THEN transfer_stop_pairs
    ELSE LET leg == Head(legs)
             emit == leg.trip_id /= None /\ leg.trip_id /= current_trip_id
                     /\ previous_arrival_stop /= None
         IN transfer_loop_keep(Tail(legs), Some(leg.arrival_stop),
                IF leg.trip_id /= None THEN leg.trip_id ELSE current_trip_id,
                IF emit
                THEN Append(transfer_stop_pairs,
                            <<previous_arrival_stop[1], leg.departure_stop>>)
                ELSE transfer_stop_pairs)

get_transfer_stop_pairs_keep(self) == Ok(transfer_loop_keep(self.legs, None, None, <<>>))

get_transfer_stop_pairs(self) == Ok(transfer_loop(self.legs, None, None, <<>>))

get_transfer_trip_pairs(self) == Ok(None)

\* The loop of get_waiting_times over the legs not yet visited.
RECURSIVE waiting_loop(_, _, _)
waiting_loop(legs, previous_arrival, waiting_times) ==
    IF legs = <<>> THEN waiting_times
    ELSE LET leg == Head(legs)
             current_departure == leg.departure_time
         IN waiting_loop(Tail(legs), Some(leg.arrival_time),
                IF truthy(previous_arrival)
                THEN Append(waiting_times, current_departure - previous_arrival[1])
                ELSE waiting_times)

get_waiting_times(self) == Ok(waiting_loop(self.legs, None, <<>>))

get_total_waiting_time(self) == Ok(sum(get_waiting_times(self).val))

RECURSIVE invehicle_loop(_, _)
invehicle_loop(legs, invehicle_times) ==
    IF legs = <<>> THEN invehicle_times
    ELSE LET leg == Head(legs)
         IN invehicle_loop(Tail(legs),
                IF leg.trip_id /= None
                THEN Append(invehicle_times, duration(leg))
                ELSE invehicle_times)

get_invehicle_times(self) == Ok(invehicle_loop(self.legs, <<>>))

get_total_invehicle_time(self) == Ok(sum(get_invehicle_times(self).val))

RECURSIVE walking_loop(_, _)
walking_loop(legs, walking_times) ==
    IF legs = <<>> THEN walking_times
    ELSE LET leg == Head(legs)
         IN walking_loop(Tail(legs),
                IF leg.is_walk
                THEN Append(walking_times, duration(leg) - leg.waiting_time)
                ELSE walking_times)

get_walking_times(self) == Ok(walking_loop(self.legs, <<>>))

get_total_walking_time(self) == Ok(sum(get_walking_times(self).val))

\* dominates with the comparisons of the time criterion made strict.
dominates_strict(self, other, consider_time, consider_boardings) ==
    IF consider_time /\ (self.departure_time = None \/ other.departure_time = None)
    THEN Raise("TypeError")
    ELSE IF consider_time /\ self.departure_time[1] > other.departure_time[1]
            /\ (self.arrival_time = None \/ other.arrival_time = None)
    THEN Raise("TypeError")
    ELSE IF consider_time /\ ~(self.departure_time[1] > other.departure_time[1]
                               /\ self.arrival_time[1] < other.arrival_time[1])
    THEN Ok(FALSE)
    ELSE IF consider_boardings /\ ~(self.n_boardings <= other.n_boardings)
    THEN Ok(FALSE)
    ELSE Ok(TRUE)

\* dominates with the arrival comparison turned around.
dominates_arrival_ge(self, other, consider_time, consider_boardings) ==
    IF consider_time /\ (self.departure_time = None \/ other.departure_time = None)
    THEN Raise("TypeError")
    ELSE IF consider_time /\ self.departure_time[1] >= other.departure_time[1]
            /\ (self.arrival_time = None \/ other.arrival_time = None)
    THEN Raise("TypeError")
    ELSE IF consider_time /\ ~(self.departure_time[1] >= other.departure_time[1]
                               /\ self.arrival_time[1] >= other.arrival_time[1])
    THEN Ok(FALSE)
    ELSE IF consider_boardings /\ ~(self.n_boardings <= other.n_boardings)
    THEN Ok(FALSE)
    ELSE Ok(TRUE)

\* dominates that returns True as soon as the time criterion passes.
dominates_any(self, other, consider_time, consider_boardings) ==
    IF consider_time /\ (self.departure_time = None \/ other.departure_time = None)
    THEN Raise("TypeError")
    ELSE IF consider_time /\ self.departure_time[1] >= other.departure_time[1]
            /\ (self.arrival_time = None \/ other.arrival_time = None)
    THEN Raise("TypeError")
    ELSE IF consider_time /\ (self.departure_time[1] >= other.departure_time[1]
                              /\ self.arrival_time[1] <= other.arrival_time[1])
    THEN Ok(TRUE)
    ELSE IF consider_boardings /\ ~(self.n_boardings <= other.n_boardings)
    THEN Ok(FALSE)
    ELSE Ok(TRUE)

\* dominates: `a >= b and c <= d` evaluates c <= d only when a >= b is true,
\* and a comparison with None raises TypeError.
dominates(self, other, consider_time, consider_boardings) ==
    IF consider_time /\ (self.departure_time = None \/ other.departure_time = None)
    THEN Raise("TypeError")
    ELSE IF consider_time /\ self.departure_time[1] >= other.departure_time[1]
            /\ (self.arrival_time = None \/ other.arrival_time = None)
    THEN Raise("TypeError")
    ELSE IF consider_time /\ ~(self.departure_time[1] >= other.departure_time[1]
                               /\ self.arrival_time[1] <= other.arrival_time[1])
    THEN Ok(FALSE)
    ELSE IF consider_boardings /\ ~(self.n_boardings <= other.n_boardings)
    THEN Ok(FALSE)
    ELSE Ok(TRUE)

(* ------------------------------------------------------- the state        *)
\* journeys: the ForwardJourney objects, by name.
\* op, recv, args, out: what the caller holds: the call that has just
\*           returned or raised (operation, receiver, arguments, outcome), or
\*           "idle" between calls.  The caller is single-threaded: one call
\*           at a time.
\* search:   the caller that builds the journeys: the legs it draws from and
\*           the longest journey it builds.
JourneyIds == DOMAIN journeys

\* The call o on journey j with arguments a has ended with outcome r.
Call(o, j, a, r) == op' = o /\ recv' = j /\ args' = a /\ out' = r

Idle == op = "idle"

\* Sequences over S of length at most n.
RECURSIVE SeqsUpTo(_, _)
SeqsUpTo(S, n) ==
    IF n = 0 THEN {<<>>}
    ELSE LET shorter == SeqsUpTo(S, n - 1)
         IN shorter \cup {Append(s, x) : s \in {t \in shorter : Len(t) = n - 1}, x \in S}

Searches ==
    {[ids |-> {"A"}, feed |-> "TripFeed", max_legs |-> MaxLegs],
     [ids |-> {"A"}, feed |-> "TimeFeed", max_legs |-> MaxLegs],
     [ids |-> {"A", "B"}, feed |-> "DomFeed", max_legs |-> DomMaxLegs]}

\* The legs the search draws from.
connections ==
    CASE search.feed = "TripFeed" -> TripFeed
      [] search.feed = "TimeFeed" -> TimeFeed
      [] search.feed = "DomFeed" -> DomFeed

\* Every journey is constructed from no legs or from a list of legs.
Init ==
    /\ search \in Searches
    /\ journeys \in [search.ids -> {ForwardJourney(legs) :
                                      legs \in SeqsUpTo(connections, search.max_legs)}]
    /\ op = "idle" /\ recv = "A" /\ args = <<>> /\ out = Ok(None)

AddLeg_shared(j, leg) ==
    /\ Idle
    /\ isinstance(leg, "Connection") => Len(journeys[j].legs) < search.max_legs
    /\ journeys' = [i \in JourneyIds |->
                      IF i = j THEN add_leg(journeys[j], leg).self
                      ELSE IF isinstance(leg, "Connection")
                           THEN [journeys[i] EXCEPT !.legs = Append(@, leg)]
                           ELSE journeys[i]]
    /\ Call("add_leg", j, <<leg>>, add_leg(journeys[j], leg).out)
    /\ UNCHANGED search

AddLeg(j, leg) ==
    /\ Idle
    /\ isinstance(leg, "Connection") => Len(journeys[j].legs) < search.max_legs
    /\ journeys' = [journeys EXCEPT ![j] = add_leg(journeys[j], leg).self]
    /\ Call("add_leg", j, <<leg>>, add_leg(journeys[j], leg).out)
    /\ UNCHANGED search

\* A query: the journeys stay as they are, the outcome is returned.
Query(o, j, r) ==
    /\ Idle
    /\ Call(o, j, <<>>, r)
    /\ UNCHANGED <<journeys, search>>

GetLegs(j) == Query("get_legs", j, Ok(journeys[j].legs))
GetTravelTime(j) == Query("get_travel_time", j, get_travel_time(journeys[j]))
GetTransfers(j) == Query("get_transfers", j, get_transfers(journeys[j]))
GetAllStops(j) == Query("get_all_stops", j, get_all_stops(journeys[j]))
GetTransferStopPairs(j) ==
    Query("get_transfer_stop_pairs", j, get_transfer_stop_pairs(journeys[j]))
GetTransferTripPairs(j) ==
    Query("get_transfer_trip_pairs", j, get_transfer_trip_pairs(journeys[j]))
GetWaitingTimes(j) == Query("get_waiting_times", j, get_waiting_times(journeys[j]))
GetTotalWaitingTime(j) ==
    Query("get_total_waiting_time", j, get_total_waiting_time(journeys[j]))
GetInvehicleTimes(j) == Query("get_invehicle_times", j, get_invehicle_times(journeys[j]))
GetTotalInvehicleTime(j) ==
    Query("get_total_invehicle_time", j, get_total_invehicle_time(journeys[j]))
GetWalkingTimes(j) == Query("get_walking_times", j, get_walking_times(journeys[j]))
GetTotalWalkingTime(j) ==
    Query("get_total_walking_time", j, get_total_walking_time(journeys[j]))

Dominates(j, o, consider_time, consider_boardings) ==
    /\ Idle
    /\ Call("dominates", j, <<o, consider_time, consider_boardings>>,
                   dominates(journeys[j], journeys[o], consider_time, consider_boardings))
    /\ UNCHANGED <<journeys, search>>

\* The caller has taken the outcome of the call and goes on.
Return ==
    /\ ~Idle
    /\ Call("idle", "A", <<>>, Ok(None))
    /\ UNCHANGED <<journeys, search>>

Next ==
    \/ \E j \in JourneyIds, leg \in connections \cup NotConnections : AddLeg(j, leg)
    \/ \E j \in JourneyIds : GetLegs(j)
    \/ \E j \in JourneyIds : GetTravelTime(j)
    \/ \E j \in JourneyIds : GetTransfers(j)
    \/ \E j \in JourneyIds : GetAllStops(j)
    \/ \E j \in JourneyIds : GetTransferStopPairs(j)
    \/ \E j \in JourneyIds : GetTransferTripPairs(j)
    \/ \E j \in JourneyIds : GetWaitingTimes(j)
    \/ \E j \in JourneyIds : GetTotalWaitingTime(j)
    \/ \E j \in JourneyIds : GetInvehicleTimes(j)
    \/ \E j \in JourneyIds : GetTotalInvehicleTime(j)
    \/ \E j \in JourneyIds : GetWalkingTimes(j)
    \/ \E j \in JourneyIds : GetTotalWalkingTime(j)
    \/ \E j \in JourneyIds, o \in JourneyIds, ct \in BOOLEAN, cb \in BOOLEAN :
           Dominates(j, o, ct, cb)
    \/ Return

Spec == Init /\ [][Next]_vars

(* ======================================================= the claims       *)
Last(s) == s[Len(s)]

Built(j) == journeys[j].legs /= <<>>

IsEmpty(j) == journeys[j].legs = <<>>

\* The last call has returned v / has raised e.
Returned(v) == out.ok /\ out.val = v
Raised(e) == ~out.ok /\ out.val = e

\* C1: an append increases n_boardings by exactly 1 when the leg's trip
\* identifier is non-null and there is no preceding leg or the preceding
\* leg's trip identifier differs; otherwise it leaves n_boardings unchanged.
\* This for every non-null trip identifier.
C1_BoardingPerNonNullTrip ==
    [][\A j \in DOMAIN journeys :
          Len(journeys'[j].legs) = Len(journeys[j].legs) + 1 =>
              LET leg == Last(journeys'[j].legs)
                  old == journeys[j]
                  boards == leg.trip_id /= None /\
                            (old.legs = <<>> \/ leg.trip_id /= Last(old.legs).trip_id)
              IN journeys'[j].n_boardings =
                     old.n_boardings + (IF boards THEN 1 ELSE 0)]_vars

\* C2: once a journey has a leg, its departure_time is the first leg's
\* departure_time and no step changes it, and its arrival_time is the last
\* appended leg's arrival_time, whatever the order of the timestamps.
C2_DepartureFirstArrivalLast ==
    /\ [](\A j \in DOMAIN journeys :
             Built(j) =>
                 /\ journeys[j].departure_time = Some(journeys[j].legs[1].departure_time)
                 /\ journeys[j].arrival_time = Some(Last(journeys[j].legs).arrival_time))
    /\ [][\A j \in DOMAIN journeys :
             Built(j) => journeys'[j].departure_time = journeys[j].departure_time]_vars

\* A second leg was appended whose timestamps are earlier than the first leg's.
C2_Witness ==
    /\ op = "add_leg"
    /\ out.ok
    /\ Len(journeys[recv].legs) >= 2
    /\ Last(journeys[recv].legs).departure_time
           < journeys[recv].legs[1].departure_time
    /\ Last(journeys[recv].legs).arrival_time
           < journeys[recv].legs[1].arrival_time

\* The gaps departure_time(L[i+1]) - arrival_time(L[i]), i = 1..n-1.
Gaps(legs) ==
    [i \in 1..(Len(legs) - 1) |-> legs[i + 1].departure_time - legs[i].arrival_time]

\* C3: for a journey of n >= 1 legs get_waiting_times returns the n - 1 gaps
\* departure_time(L[i+1]) - arrival_time(L[i]) in leg order, and
\* get_total_waiting_time returns their sum.
C3_WaitingTimesAreAllGaps ==
    Built(recv) =>
        /\ op = "get_waiting_times" => Returned(Gaps(journeys[recv].legs))
        /\ op = "get_total_waiting_time" => Returned(sum(Gaps(journeys[recv].legs)))

\* The indices 1..n in order.
Indices(legs) == [i \in 1..Len(legs) |-> i]

\* The trip of the most recent leg before leg i that has a trip, None if none.
RECURSIVE LastVehicleTrip(_, _)
LastVehicleTrip(legs, i) ==
    IF i = 1 THEN None
    ELSE IF legs[i - 1].trip_id /= None THEN legs[i - 1].trip_id
    ELSE LastVehicleTrip(legs, i - 1)

\* The trip of the leg right before leg i (None for a walking leg).
PrecedingTrip(legs, i) == legs[i - 1].trip_id

\* The pairs (arrival stop of the preceding leg, departure stop of the leg) of
\* the legs, other than the first, with a trip that differs from Ref(legs, i).
PairsWhereTripDiffers(legs, Ref(_, _)) ==
    LET Transfer(i) == i > 1 /\ legs[i].trip_id /= None /\ legs[i].trip_id /= Ref(legs, i)
        at == SelectSeq(Indices(legs), Transfer)
    IN [k \in 1..Len(at) |-> <<legs[at[k] - 1].arrival_stop, legs[at[k]].departure_stop>>]

\* C4 as stated: get_transfer_stop_pairs emits the pair of exactly those legs,
\* other than the first, whose non-null trip differs from the trip of the most
\* recently seen leg that has a trip; ride T, walk, ride T emits nothing.
C4_PairsAgainstLastVehicleTrip ==
    (op = "get_transfer_stop_pairs" /\ Built(recv)) =>
        Returned(PairsWhereTripDiffers(journeys[recv].legs, LastVehicleTrip))

\* C4 as amended: get_transfer_stop_pairs emits, in leg order, the pair of
\* exactly those legs, other than the first, whose non-null trip differs from
\* the trip identifier of the immediately preceding leg, null for a walking
\* leg: a ride after a walk always emits a pair.
C4_PairsAgainstPrecedingLeg ==
    (op = "get_transfer_stop_pairs" /\ Built(recv)) =>
        Returned(PairsWhereTripDiffers(journeys[recv].legs, PrecedingTrip))

\* get_transfer_stop_pairs has returned one pair for ride T, walk, ride T.
C4_Witness ==
    /\ op = "get_transfer_stop_pairs"
    /\ Len(journeys[recv].legs) = 3
    /\ journeys[recv].legs[1].trip_id /= None
    /\ journeys[recv].legs[2].trip_id = None
    /\ journeys[recv].legs[3].trip_id = journeys[recv].legs[1].trip_id
    /\ Len(out.val) = 1

\* What dominates is to return for two built journeys.
NoWorse(a, b, consider_time, consider_boardings) ==
    /\ consider_time =>
           /\ a.departure_time[1] >= b.departure_time[1]
           /\ a.arrival_time[1] <= b.arrival_time[1]
    /\ consider_boardings => a.n_boardings <= b.n_boardings

\* C5: for two built journeys A and B and any flags, A.dominates(B) is true
\* exactly when (consider_time is off or A departs no earlier and arrives no
\* later than B) and (consider_boardings is off or A has no more boardings).
C5_DominatesIffNoWorse ==
    (op = "dominates" /\ Built(recv) /\ Built(args[1])) =>
        Returned(NoWorse(journeys[recv], journeys[args[1]], args[2], args[3]))

\* dominates with both criteria has returned false for two different built
\* journeys where only the arrival time speaks against it.
C5_Witness ==
    /\ op = "dominates"
    /\ args[1] /= recv
    /\ args[2] /\ args[3]
    /\ Built(recv) /\ Built(args[1])
    /\ out.ok /\ ~out.val
    /\ journeys[recv].departure_time[1] >= journeys[args[1]].departure_time[1]
    /\ journeys[recv].n_boardings <= journeys[args[1]].n_boardings

SameValues(a, b) ==
    /\ a.departure_time = b.departure_time
    /\ a.arrival_time = b.arrival_time
    /\ a.n_boardings = b.n_boardings

\* C6: for every built journey J and any flags J.dominates(J) is true, and two
\* distinct journeys with the same departure_time, arrival_time and
\* n_boardings dominate each other (a call in either direction returns true).
C6_ReflexiveNotAntisymmetric ==
    (op = "dominates" /\ Built(recv) /\ Built(args[1])) =>
        /\ args[1] = recv => Returned(TRUE)
        /\ SameValues(journeys[recv], journeys[args[1]]) => Returned(TRUE)

\* dominates with both criteria has returned true for two distinct journeys
\* with the same values.
C6_Witness ==
    /\ op = "dominates"
    /\ args[1] /= recv
    /\ args[2] /\ args[3]
    /\ Built(recv) /\ Built(args[1])
    /\ SameValues(journeys[recv], journeys[args[1]])
    /\ out.ok /\ out.val

FailingOnEmpty == {"get_travel_time", "get_all_stops"}
ListsOnEmpty ==
    {"get_transfer_stop_pairs", "get_waiting_times", "get_invehicle_times",
     "get_walking_times"}
ZeroOnEmpty ==
    {"get_transfers", "get_total_waiting_time", "get_total_invehicle_time",
     "get_total_walking_time"}

\* C7 as stated: on a journey without legs every metric accessor fails, and
\* so does dominates with the empty journey as self, for every flag selection.
C7_EmptyJourneyAlwaysFails ==
    (op \in FailingOnEmpty \cup ListsOnEmpty \cup ZeroOnEmpty \cup {"dominates"}
     /\ IsEmpty(recv)) => ~out.ok

\* C7 as amended: on a journey without legs get_travel_time and get_all_stops
\* fail, and so does dominates with consider_time on; get_transfers returns 0,
\* get_transfer_stop_pairs, get_waiting_times, get_invehicle_times and
\* get_walking_times return the empty list, the three totals return 0, and
\* dominates with consider_time off returns true.
C7_EmptyJourneyOutcomes ==
    IsEmpty(recv) =>
        /\ op = "get_travel_time" => Raised("TypeError")
        /\ op = "get_all_stops" => Raised("IndexError")
        /\ op \in ListsOnEmpty => Returned(<<>>)
        /\ op \in ZeroOnEmpty => Returned(0)
        /\ (op = "dominates" /\ args[2]) => Raised("TypeError")
        /\ (op = "dominates" /\ ~args[2]) => Returned(TRUE)

\* get_transfers has returned a value on a journey without legs.
C7_Witness ==
    /\ op = "get_transfers"
    /\ IsEmpty(recv)
    /\ out.ok

\* C8: add_leg with a value that is no Connection fails and leaves the
\* journey, with the legs appended before, as it was.
C8_InvalidLegRejectedUnchanged ==
    [][\A j \in DOMAIN journeys :
          (op' = "add_leg" /\ recv' = j /\ ~isinstance(args'[1], "Connection")) =>
              /\ ~out'.ok
              /\ journeys'[j] = journeys[j]]_vars

\* add_leg has failed for a PlotConnection on a journey that has a leg.
C8_Witness ==
    /\ op = "add_leg"
    /\ isinstance(args[1], "PlotConnection")
    /\ ~out.ok
    /\ Built(recv)

\* C9: a step changes a journey only if it is a successful add_leg on that
\* journey: the queries and dominates change no journey, and add_leg changes
\* no journey but its own.
C9_OnlyAddLegChangesItsJourney ==
    [][\A j \in DOMAIN journeys :
          journeys'[j] /= journeys[j] =>
              op' = "add_leg" /\ recv' = j /\ out'.ok]_vars

\* add_leg has appended to one journey while another journey has a leg.
C9_Witness ==
    /\ op = "add_leg"
    /\ out.ok
    /\ \E o \in DOMAIN journeys : o /= recv /\ Built(o)

\* The journeys the constructor builds from at most DomMaxLegs legs of a feed.
BuiltFrom(feed) == {ForwardJourney(legs) : legs \in SeqsUpTo(feed, DomMaxLegs)} \ {EmptyJourney}

Values(c) == <<c.departure_time, c.arrival_time, c.n_boardings>>

\* One of them for each combination of departure_time, arrival_time and
\* n_boardings that occurs.
OfEachValue(built) ==
    {CHOOSE c \in built : Values(c) = v : v \in {Values(c) : c \in built}}

TripBuilt == OfEachValue(BuiltFrom(TripFeed))
TimeBuilt == OfEachValue(BuiltFrom(TimeFeed))
DomBuilt == OfEachValue(BuiltFrom(DomFeed))

\* Those built from the legs of the search.
Constructible ==
    CASE search.feed = "TripFeed" -> TripBuilt
      [] search.feed = "TimeFeed" -> TimeBuilt
      [] search.feed = "DomFeed" -> DomBuilt

Dom(a, b, ct, cb) == dominates(a, b, ct, cb) = Ok(TRUE)

\* C10: under fixed flags dominance is transitive over built journeys.  When
\* X.dominates(Y) has returned true, X dominates every Z that Y dominates and
\* every Z that dominates X dominates Y; when it has returned false, no Z has
\* X dominate Z and Z dominate Y.  Z ranges over journeys the constructor
\* builds from the legs of the search, one for each combination of
\* departure_time, arrival_time and n_boardings.
C10_DominatesTransitive ==
    (op = "dominates" /\ Built(recv) /\ Built(args[1])) =>
        LET x == journeys[recv]
            y == journeys[args[1]]
            ct == args[2]
            cb == args[3]
        IN \A z \in Constructible :
               IF out.val
               THEN /\ Dom(y, z, ct, cb) => Dom(x, z, ct, cb)
                    /\ Dom(z, x, ct, cb) => Dom(z, y, ct, cb)
               ELSE ~(Dom(x, z, ct, cb) /\ Dom(z, y, ct, cb))

\* dominates has returned true for A over B, both criteria on, and B in turn
\* dominates a third journey; the three differ.
C10_Witness ==
    /\ op = "dominates"
    /\ args[1] /= recv
    /\ args[2] /\ args[3]
    /\ Built(recv) /\ Built(args[1])
    /\ out.ok /\ out.val
    /\ Values(journeys[recv]) /= Values(journeys[args[1]])
    /\ \E c \in Constructible :
           /\ Values(c) /= Values(journeys[recv])
           /\ Values(c) /= Values(journeys[args[1]])
           /\ Dom(journeys[args[1]], c, TRUE, TRUE)

====
